---------------------------- MODULE Spec2Model ----------------------------
(***************************************************************************)
(* Customer REST service (service/routes.py).                              *)
(*                                                                         *)
(* The state is the persisted customer table, the last request served and  *)
(* the response it got.  Every route handler is an operator from the table *)
(* and the request's inputs to the table afterwards, the response and the  *)
(* sequence of Customer-model calls the handler made; one action per route *)
(* applies it.  The Customer model class (service/models.py) and the error *)
(* handlers are not part of the sources at hand: they are modelled from    *)
(* the specification's data model (section 3) and error design (section 7).*)
(***************************************************************************)
EXTENDS Integers, Sequences, FiniteSets, TLC

VARIABLES
    store,      \* the customer table: a set of rows [id, name, email, phone_number, address]
    req,        \* the last request served
    resp,       \* the response to it
    calls,      \* the Customer-model calls the handler made, in order
    life        \* history: per id, "never" created, "live", or "deleted"

vars == <<store, req, resp, calls, life>>

(***************************************************************************)
(* Bounds                                                                  *)
(***************************************************************************)
\* The database hands out ids 1..MaxId.
MaxId == 2

Ids == 1..MaxId

\* Ids a client may name in a path: the ids in use and one above them.
ClientIds == 1..(MaxId + 1)

(***************************************************************************)
(* HTTP status codes (service.common.status)                               *)
(***************************************************************************)
HTTP_200_OK == 200
HTTP_201_CREATED == 201
HTTP_204_NO_CONTENT == 204
HTTP_404_NOT_FOUND == 404
HTTP_415_UNSUPPORTED_MEDIA_TYPE == 415
\* The status the error handlers give a DataValidationError and an
\* undecodable JSON body: a client error.
HTTP_400_BAD_REQUEST == 400

(***************************************************************************)
(* Dictionaries: functions from a finite set of keys                       *)
(***************************************************************************)
EmptyDict == [k \in {} |-> ""]

Restrict(d, keys) == [k \in keys |-> d[k]]

\* d with key k set to v
With(d, k, v) == [x \in DOMAIN d \cup {k} |-> IF x = k THEN v ELSE d[x]]

Range(s) == {s[i] : i \in DOMAIN s}

(***************************************************************************)
(* int() and str() on path segments, a segment being a sequence of         *)
(* characters                                                              *)
(***************************************************************************)
Digits == <<"0", "1", "2", "3", "4", "5", "6", "7", "8", "9">>

DigitChars == Range(Digits)

DigitValue(c) == (CHOOSE i \in DOMAIN Digits : Digits[i] = c) - 1

RECURSIVE DigitsValue(_)
DigitsValue(s) ==
    IF s = <<>> THEN 0
    ELSE 10 * DigitsValue(SubSeq(s, 1, Len(s) - 1)) + DigitValue(s[Len(s)])

\* str.strip(): the segment without the blanks at its ends
RECURSIVE strip(_)
strip(s) ==
    IF s = <<>> THEN s
    ELSE IF Head(s) = " " THEN strip(Tail(s))
    ELSE IF s[Len(s)] = " " THEN strip(SubSeq(s, 1, Len(s) - 1))
    ELSE s

IsDigitChar(c) == c \in DigitChars

\* int(s): blanks around it aside, an optional sign and decimal digits, which
\* single underscores may separate; anything else is a ValueError
int(s) ==
    LET t == strip(s)
        signed == t # <<>> /\ t[1] \in {"-", "+"}
        body == IF signed THEN Tail(t) ELSE t
        literal ==
            /\ body # <<>>
            /\ \A i \in DOMAIN body : body[i] \in DigitChars \cup {"_"}
            /\ body[1] # "_"
            /\ body[Len(body)] # "_"
            /\ \A i \in 1..(Len(body) - 1) : ~(body[i] = "_" /\ body[i + 1] = "_")
        magnitude == DigitsValue(SelectSeq(body, IsDigitChar))
    IN  IF literal
        THEN [ok |-> TRUE,
              value |-> IF signed /\ t[1] = "-" THEN 0 - magnitude ELSE magnitude]
        ELSE [ok |-> FALSE, value |-> 0]

RECURSIVE str(_)
str(n) ==
    IF n < 0 THEN <<"-">> \o str(0 - n)
    ELSE IF n < 10 THEN <<Digits[n + 1]>>
    ELSE str(n \div 10) \o <<Digits[(n % 10) + 1]>>

\* url_for("get_customers", customer_id=...): the path, segment by segment
url_for_get_customers(customer_id) == <<"customers", str(customer_id)>>


(***************************************************************************)
(* The Customer model class (service.models.Customer), modelled from the   *)
(* specification: id (unique, assigned by the database on create), name,   *)
(* email, phone_number, address.  A Customer object is a dictionary of the *)
(* attributes that are set; a row of the table has all five.               *)
(***************************************************************************)
Fields == <<"name", "email", "phone_number", "address">>

\* Customer(): no attribute set yet
Customer == EmptyDict

\* customer.deserialize(data): assigns the fields in order from the
\* dictionary; a missing key raises DataValidationError, with the fields
\* before it already assigned on the object.  The id is never read.
deserialize(customer, data) ==
    LET missing == {i \in DOMAIN Fields : Fields[i] \notin DOMAIN data}
        stop == IF missing = {} THEN Len(Fields) + 1
                ELSE CHOOSE i \in missing : \A j \in missing : i <= j
        assigned == {Fields[i] : i \in 1..(stop - 1)}
    IN  [ok |-> missing = {},
         customer |-> [k \in DOMAIN customer \cup assigned |->
                          IF k \in assigned THEN data[k] ELSE customer[k]]]

\* customer.serialize()
serialize(customer) == Restrict(customer, {"id"} \cup Range(Fields))

\* The ids the database may give the next row: any id no row has.
NextIds(db) == Ids \ {r.id : r \in db}

\* customer.create(): inserts the object as a row under the id the database
\* assigned
create(db, customer, new_id) ==
    LET row == With(customer, "id", new_id)
    IN  [db |-> db \cup {row}, customer |-> row]

\* customer.update(): writes the object over the row with its id
update(db, customer) == {r \in db : r.id # customer.id} \cup {customer}

\* customer.delete(): removes the row with the object's id
delete(db, customer) == {r \in db : r.id # customer.id}

\* Customer.find(id): the row with that id, or None (the empty sequence)
find(db, customer_id) ==
    IF \E r \in db : r.id = customer_id
    THEN <<CHOOSE r \in db : r.id = customer_id>>
    ELSE <<>>

\* Customer.all() and the find_by_* queries; the order of a query's rows is
\* the database's, so a result is the set of its rows
all(db) == db

find_by_name(db, name) == {r \in db : r.name = name}

find_by_email(db, email) == {r \in db : r.email = email}

find_by_phone_number(db, phone_number) == {r \in db : r.phone_number = phone_number}

find_by_address(db, address) == {r \in db : r.address = address}

(***************************************************************************)
(* Responses                                                               *)
(***************************************************************************)
\* status: the HTTP status; kind: what the body is; entity: the serialized
\* customer of the body, if any; list: the serialized customers of a list
\* body; location: the Location header, if any; raised: the exception that
\* ended the handler, if any.
Response(status, kind, entity, list, location, raised) ==
    [status |-> status, kind |-> kind, entity |-> entity, list |-> list,
     location |-> location, raised |-> raised]

\* abort(status, message)
abort(status) == Response(status, "error", <<>>, {}, <<>>, "HTTPException")

\* raise DataValidationError(...), answered by the error handlers
DataValidationError ==
    Response(HTTP_400_BAD_REQUEST, "error", <<>>, {}, <<>>, "DataValidationError")

\* What a handler leaves: the table, the response, the model calls it made.
Result(db, response, made) == [db |-> db, resp |-> response, calls |-> made]

(***************************************************************************)
(* Requests                                                                *)
(***************************************************************************)
\* request.args.get(key): the value, or None (the empty sequence)
args_get(args, key) == IF key \in DOMAIN args THEN <<args[key]>> ELSE <<>>

\* Python truth of an optional string: neither None nor ""
Truthy(v) == v # <<>> /\ v[1] # ""

\* request.get_json(): the decoded body, or 400 when it does not decode
get_json(body) == IF body.decodes THEN <<body.data>> ELSE <<>>

\* check_content_type(content_type): TRUE when it returns, FALSE when it
\* aborts with 415
check_content_type(headers, content_type) ==
    IF "Content-Type" \notin DOMAIN headers THEN FALSE
    ELSE IF headers["Content-Type"] = content_type THEN TRUE
    ELSE FALSE

(***************************************************************************)
(* Faulty variants of the route handlers, each the handler with one slip.  *)
(* A property of the service is expected to fail when the handler it is    *)
(* about is replaced by its variant.                                       *)
(***************************************************************************)
\* POST /customers that answers without customer.create() reaching the table
create_customers_NoSave(db, headers, body, new_id) ==
    IF ~check_content_type(headers, "application/json")
    THEN Result(db, abort(HTTP_415_UNSUPPORTED_MEDIA_TYPE), <<>>)
    ELSE LET data == get_json(body)
         IN  IF data = <<>>
             THEN Result(db, abort(HTTP_400_BAD_REQUEST), <<>>)
             ELSE LET d == deserialize(Customer, data[1])
                  IN  IF ~d.ok
                      THEN Result(db, DataValidationError, <<"deserialize">>)
                      ELSE LET c == create(db, d.customer, new_id)
                           IN  Result(db,
                                      Response(HTTP_201_CREATED, "customer",
                                               <<serialize(c.customer)>>, {},
                                               <<url_for_get_customers(c.customer.id)>>, ""),
                                      <<"deserialize", "create", "serialize">>)

\* GET /customers that looks at the email filter before the name filter
list_customers_EmailFirst(db, args) ==
    LET name == args_get(args, "name")
        email == args_get(args, "email")
        phone_number == args_get(args, "phone_number")
        address == args_get(args, "address")
        query ==
            IF Truthy(email) THEN "find_by_email"
            ELSE IF Truthy(name) THEN "find_by_name"
            ELSE IF Truthy(phone_number) THEN "find_by_phone_number"
            ELSE IF Truthy(address) THEN "find_by_address"
            ELSE "all"
        customers ==
            IF Truthy(email) THEN find_by_email(db, email[1])
            ELSE IF Truthy(name) THEN find_by_name(db, name[1])
            ELSE IF Truthy(phone_number) THEN find_by_phone_number(db, phone_number[1])
            ELSE IF Truthy(address) THEN find_by_address(db, address[1])
            ELSE all(db)
        results == {serialize(customer) : customer \in customers}
    IN  Result(db, Response(HTTP_200_OK, "list", <<>>, results, <<>>, ""),
               <<query, "serialize">>)

\* GET /customers whose query narrows the table itself
list_customers_KeepsFiltered(db, args) ==
    LET name == args_get(args, "name")
        email == args_get(args, "email")
        phone_number == args_get(args, "phone_number")
        address == args_get(args, "address")
        query ==
            IF Truthy(name) THEN "find_by_name"
            ELSE IF Truthy(email) THEN "find_by_email"
            ELSE IF Truthy(phone_number) THEN "find_by_phone_number"
            ELSE IF Truthy(address) THEN "find_by_address"
            ELSE "all"
        customers ==
            IF Truthy(name) THEN find_by_name(db, name[1])
            ELSE IF Truthy(email) THEN find_by_email(db, email[1])
            ELSE IF Truthy(phone_number) THEN find_by_phone_number(db, phone_number[1])
            ELSE IF Truthy(address) THEN find_by_address(db, address[1])
            ELSE all(db)
        results == {serialize(customer) : customer \in customers}
    IN  Result(customers, Response(HTTP_200_OK, "list", <<>>, results, <<>>, ""),
               <<query, "serialize">>)

\* GET /customers/<id> without the abort when nothing is found
get_customers_NeverAborts(db, customer_id) ==
    LET customer == find(db, customer_id)
    IN  Result(db,
               Response(HTTP_200_OK, "customer",
                        IF customer = <<>> THEN <<>> ELSE <<serialize(customer[1])>>,
                        {}, <<>>, ""),
               <<"find", "serialize">>)

\* The body of PUT /customers/<id> after the content type check and the
\* lookup, shared by its variants: `ident` is the id the saved object gets,
\* `saves` whether update() is called on a valid payload, `savesInvalid`
\* whether it is called on a rejected one.
update_found(db, customer, body, ident, saves, savesInvalid) ==
    LET data == get_json(body)
    IN  IF data = <<>>
        THEN Result(db, abort(HTTP_400_BAD_REQUEST), <<"find">>)
        ELSE LET d == deserialize(customer, data[1])
                 saved == With(d.customer, "id", ident)
             IN  IF ~d.ok
                 THEN IF savesInvalid
                      THEN Result(update(db, saved), DataValidationError,
                                  <<"find", "deserialize", "update">>)
                      ELSE Result(db, DataValidationError, <<"find", "deserialize">>)
                 ELSE Result(IF saves THEN update(db, saved) ELSE db,
                             Response(HTTP_200_OK, "customer", <<serialize(saved)>>,
                                      {}, <<>>, ""),
                             IF saves
                             THEN <<"find", "deserialize", "update", "serialize">>
                             ELSE <<"find", "deserialize", "serialize">>)

\* PUT /customers/<id> that never calls customer.update()
update_customers_NoUpdate(db, customer_id, headers, body) ==
    IF ~check_content_type(headers, "application/json")
    THEN Result(db, abort(HTTP_415_UNSUPPORTED_MEDIA_TYPE), <<>>)
    ELSE LET customer == find(db, customer_id)
         IN  IF customer = <<>>
             THEN Result(db, abort(HTTP_404_NOT_FOUND), <<"find">>)
             ELSE update_found(db, customer[1], body, customer_id, FALSE, FALSE)

\* PUT /customers/<id> that looks the customer up before it checks the
\* content type
update_customers_FindFirst(db, customer_id, headers, body) ==
    LET customer == find(db, customer_id)
    IN  IF customer = <<>>
        THEN Result(db, abort(HTTP_404_NOT_FOUND), <<"find">>)
        ELSE IF ~check_content_type(headers, "application/json")
        THEN Result(db, abort(HTTP_415_UNSUPPORTED_MEDIA_TYPE), <<"find">>)
        ELSE update_found(db, customer[1], body, customer_id, TRUE, FALSE)

\* PUT /customers/<id> that takes the customer's id from the payload when
\* the payload carries one
update_customers_IdFromPayload(db, customer_id, headers, body) ==
    IF ~check_content_type(headers, "application/json")
    THEN Result(db, abort(HTTP_415_UNSUPPORTED_MEDIA_TYPE), <<>>)
    ELSE LET customer == find(db, customer_id)
         IN  IF customer = <<>>
             THEN Result(db, abort(HTTP_404_NOT_FOUND), <<"find">>)
             ELSE update_found(db, customer[1], body,
                               IF body.decodes /\ "id" \in DOMAIN body.data
                               THEN body.data["id"] ELSE customer_id,
                               TRUE, FALSE)

\* PUT /customers/<id> that calls customer.update() although deserialize
\* rejected the payload
update_customers_SavesRejected(db, customer_id, headers, body) ==
    IF ~check_content_type(headers, "application/json")
    THEN Result(db, abort(HTTP_415_UNSUPPORTED_MEDIA_TYPE), <<>>)
    ELSE LET customer == find(db, customer_id)
         IN  IF customer = <<>>
             THEN Result(db, abort(HTTP_404_NOT_FOUND), <<"find">>)
             ELSE update_found(db, customer[1], body, customer_id, TRUE, TRUE)

\* DELETE /customers/<id> that answers 204 whether or not it found a customer
delete_customer_Always204(db, customer_id) ==
    LET parsed == int(customer_id)
    IN  IF ~parsed.ok
        THEN Result(db, DataValidationError, <<>>)
        ELSE LET customer == find(db, parsed.value)
             IN  Result(IF customer # <<>> THEN delete(db, customer[1]) ELSE db,
                        Response(HTTP_204_NO_CONTENT, "empty", <<>>, {}, <<>>, ""),
                        IF customer # <<>> THEN <<"find", "delete">> ELSE <<"find">>)

\* DELETE /customers/<id> that takes an id it cannot parse for one it cannot
\* find
delete_customer_NotFoundOnBadId(db, customer_id) ==
    LET parsed == int(customer_id)
    IN  IF ~parsed.ok
        THEN Result(db, abort(HTTP_404_NOT_FOUND), <<>>)
        ELSE LET customer == find(db, parsed.value)
             IN  IF customer # <<>>
                 THEN Result(delete(db, customer[1]),
                             Response(HTTP_204_NO_CONTENT, "empty", <<>>, {}, <<>>, ""),
                             <<"find", "delete">>)
                 ELSE Result(db, abort(HTTP_404_NOT_FOUND), <<"find">>)

(***************************************************************************)
(* The route handlers                                                      *)
(***************************************************************************)
\* GET /
index(db) ==
    Result(db, Response(HTTP_200_OK, "index", <<>>, {}, <<>>, ""), <<>>)

\* POST /customers
create_customers(db, headers, body, new_id) ==
    IF ~check_content_type(headers, "application/json")
    THEN Result(db, abort(HTTP_415_UNSUPPORTED_MEDIA_TYPE), <<>>)
    ELSE LET data == get_json(body)
         IN  IF data = <<>>
             THEN Result(db, abort(HTTP_400_BAD_REQUEST), <<>>)
             ELSE LET d == deserialize(Customer, data[1])
                  IN  IF ~d.ok
                      THEN Result(db, DataValidationError, <<"deserialize">>)
                      ELSE LET c == create(db, d.customer, new_id)
                           IN  Result(c.db,
                                      Response(HTTP_201_CREATED, "customer",
                                               <<serialize(c.customer)>>, {},
                                               <<url_for_get_customers(c.customer.id)>>, ""),
                                      <<"deserialize", "create", "serialize">>)

\* GET /customers
list_customers(db, args) ==
    LET name == args_get(args, "name")
        email == args_get(args, "email")
        phone_number == args_get(args, "phone_number")
        address == args_get(args, "address")
        query ==
            IF Truthy(name) THEN "find_by_name"
            ELSE IF Truthy(email) THEN "find_by_email"
            ELSE IF Truthy(phone_number) THEN "find_by_phone_number"
            ELSE IF Truthy(address) THEN "find_by_address"
            ELSE "all"
        customers ==
            IF Truthy(name) THEN find_by_name(db, name[1])
            ELSE IF Truthy(email) THEN find_by_email(db, email[1])
            ELSE IF Truthy(phone_number) THEN find_by_phone_number(db, phone_number[1])
            ELSE IF Truthy(address) THEN find_by_address(db, address[1])
            ELSE all(db)
        results == {serialize(customer) : customer \in customers}
    IN  Result(db, Response(HTTP_200_OK, "list", <<>>, results, <<>>, ""),
               <<query, "serialize">>)

\* GET /customers/<int:customer_id>
get_customers(db, customer_id) ==
    LET customer == find(db, customer_id)
    IN  IF customer = <<>>
        THEN Result(db, abort(HTTP_404_NOT_FOUND), <<"find">>)
        ELSE Result(db,
                    Response(HTTP_200_OK, "customer", <<serialize(customer[1])>>,
                             {}, <<>>, ""),
                    <<"find", "serialize">>)

\* PUT /customers/<int:customer_id>
update_customers(db, customer_id, headers, body) ==
    IF ~check_content_type(headers, "application/json")
    THEN Result(db, abort(HTTP_415_UNSUPPORTED_MEDIA_TYPE), <<>>)
    ELSE LET customer == find(db, customer_id)
         IN  IF customer = <<>>
             THEN Result(db, abort(HTTP_404_NOT_FOUND), <<"find">>)
             ELSE LET data == get_json(body)
                  IN  IF data = <<>>
                      THEN Result(db, abort(HTTP_400_BAD_REQUEST), <<"find">>)
                      ELSE LET d == deserialize(customer[1], data[1])
                           IN  IF ~d.ok
                               THEN Result(db, DataValidationError,
                                           <<"find", "deserialize">>)
                               ELSE Result(update(db, d.customer),
                                           Response(HTTP_200_OK, "customer",
                                                    <<serialize(d.customer)>>, {},
                                                    <<>>, ""),
                                           <<"find", "deserialize", "update", "serialize">>)

\* DELETE /customers/<customer_id>
delete_customer(db, customer_id) ==
    LET parsed == int(customer_id)
    IN  IF ~parsed.ok
        THEN Result(db, DataValidationError, <<>>)
        ELSE LET customer == find(db, parsed.value)
             IN  IF customer # <<>>
                 THEN Result(delete(db, customer[1]),
                             Response(HTTP_204_NO_CONTENT, "empty", <<>>, {}, <<>>, ""),
                             <<"find", "delete">>)
                 ELSE Result(db, abort(HTTP_404_NOT_FOUND), <<"find">>)

(***************************************************************************)
(* The requests a client sends                                             *)
(***************************************************************************)
Person(name, email, phone_number, address) ==
    [name |-> name, email |-> email, phone_number |-> phone_number,
     address |-> address]

\* Valid customer payloads: each field takes two values, and no two fields
\* split the payloads the same way.
Payloads ==
    {Person("Alice", "a@example.com", "555-0100", "1 Main St"),
     Person("Alice", "b@example.com", "555-0200", "2 Oak Ave"),
     Person("Bob", "a@example.com", "555-0200", "1 Main St"),
     Person("Bob", "b@example.com", "555-0100", "2 Oak Ave")}

\* A valid payload that also carries an id
PayloadWithId ==
    With(Person("Bob", "b@example.com", "555-0200", "1 Main St"), "id", 1)

\* Payloads deserialize rejects: the first field missing, the last missing
MalformedPayloads ==
    {Restrict(Person("Bob", "a@example.com", "555-0100", "2 Oak Ave"),
              {"email", "phone_number", "address"}),
     Restrict(Person("Bob", "a@example.com", "555-0100", "2 Oak Ave"),
              {"name", "email", "phone_number"})}

\* Request bodies: JSON that decodes to a dictionary, or text that does not
\* decode
Bodies ==
    {[decodes |-> TRUE, data |-> d] :
        d \in Payloads \cup {PayloadWithId} \cup MalformedPayloads}
    \cup {[decodes |-> FALSE, data |-> EmptyDict]}

NoBody == [decodes |-> FALSE, data |-> EmptyDict]

\* Request headers: no Content-Type, the one the service asks for, and one
\* that only starts with it
HeaderSets ==
    {EmptyDict} \cup
    {[k \in {"Content-Type"} |-> v] :
        v \in {"application/json", "application/json; charset=utf-8"}}

\* Query strings of GET /customers: each filter absent, empty or set
QueryValues ==
    [name |-> {"", "Alice"}, email |-> {"", "b@example.com"},
     phone_number |-> {"555-0100"}, address |-> {"1 Main St"}]

QueryArgs ==
    UNION {{args \in [keys -> UNION Range(QueryValues)] :
               \A k \in keys : args[k] \in QueryValues[k]} :
           keys \in SUBSET DOMAIN QueryValues}

\* Path segments of DELETE /customers/<customer_id>
DeletePaths ==
    {str(i) : i \in ClientIds} \cup
    {<<"0", "1">>, <<"1", "_", "2">>, <<" ", "2">>, <<"-", "1">>,
     <<"a", "b", "c">>, <<"1", "a">>, <<"1", ".", "5">>, <<"_", "1">>}

Request(op, customer_id, path, headers, body, args) ==
    [op |-> op, customer_id |-> customer_id, path |-> path,
     headers |-> headers, body |-> body, args |-> args]

(***************************************************************************)
(* The service                                                             *)
(***************************************************************************)
\* The service starts on an empty table; nothing was asked yet.
Init ==
    /\ store = {}
    /\ req = Request("", 0, <<>>, EmptyDict, NoBody, EmptyDict)
    /\ resp = Response(0, "", <<>>, {}, <<>>, "")
    /\ calls = <<>>
    /\ life = [i \in Ids |-> "never"]

Serve(request, result) ==
    /\ store' = result.db
    /\ req' = request
    /\ resp' = result.resp
    /\ calls' = result.calls

GetIndex ==
    /\ Serve(Request("GET /", 0, <<>>, EmptyDict, NoBody, EmptyDict), index(store))
    /\ UNCHANGED life

\* The database assigns the new row an id no row has (0: it is not asked for
\* one); with every id of the bound in use, only the requests that create
\* nothing are served.
PostCustomers ==
    \E headers \in HeaderSets, body \in Bodies, new_id \in NextIds(store) \cup {0} :
        LET result == create_customers(store, headers, body, new_id)
        IN  /\ "create" \in Range(result.calls) <=> new_id # 0
            /\ Serve(Request("POST /customers", 0, <<>>, headers, body, EmptyDict),
                     result)
            /\ life' = IF result.resp.status = HTTP_201_CREATED /\ new_id \in Ids
                       THEN [life EXCEPT ![new_id] = "live"]
                       ELSE life

ListCustomers ==
    \E args \in QueryArgs :
        /\ Serve(Request("GET /customers", 0, <<>>, EmptyDict, NoBody, args),
                 list_customers(store, args))
        /\ UNCHANGED life

GetCustomers ==
    \E customer_id \in ClientIds :
        /\ Serve(Request("GET /customers/id", customer_id, <<>>, EmptyDict, NoBody,
                         EmptyDict),
                 get_customers(store, customer_id))
        /\ UNCHANGED life

UpdateCustomers ==
    \E customer_id \in ClientIds, headers \in HeaderSets, body \in Bodies :
        /\ Serve(Request("PUT /customers/id", customer_id, <<>>, headers, body,
                         EmptyDict),
                 update_customers(store, customer_id, headers, body))
        /\ UNCHANGED life

DeleteCustomer ==
    \E path \in DeletePaths :
        LET result == delete_customer(store, path)
            id == int(path).value
        IN  /\ Serve(Request("DELETE /customers/id", 0, path, EmptyDict, NoBody,
                             EmptyDict),
                     result)
            /\ life' = IF result.resp.status = HTTP_204_NO_CONTENT /\ id \in Ids
                       THEN [life EXCEPT ![id] = "deleted"]
                       ELSE life

Next ==
    \/ GetIndex
    \/ PostCustomers
    \/ ListCustomers
    \/ GetCustomers
    \/ UpdateCustomers
    \/ DeleteCustomer

Spec == Init /\ [][Next]_vars

(***************************************************************************)
(* Properties                                                              *)
(***************************************************************************)
IdsOf(db) == {r.id : r \in db}

HasJsonContentType(request) ==
    /\ "Content-Type" \in DOMAIN request.headers
    /\ request.headers["Content-Type"] = "application/json"

\* The body decodes to a dictionary with every customer field.
ValidPayload(request) ==
    /\ request.body.decodes
    /\ \A f \in {"name", "email", "phone_number", "address"} :
          f \in DOMAIN request.body.data

\* The body decodes to a dictionary that lacks a customer field.
MalformedPayload(request) ==
    /\ request.body.decodes
    /\ \E f \in {"name", "email", "phone_number", "address"} :
          f \notin DOMAIN request.body.data

\* The row a payload describes under an id
RowOf(id, data) ==
    [id |-> id, name |-> data.name, email |-> data.email,
     phone_number |-> data.phone_number, address |-> data.address]

\* C1: a POST of a valid customer as application/json adds exactly one row,
\* under an id no row had, answers 201 with Location /customers/<that id>,
\* and a GET of that location right afterwards answers 200 with the posted
\* name, email, phone_number and address.
C1_PostCreatesAndLocates ==
    [][(req'.op = "POST /customers" /\ HasJsonContentType(req') /\ ValidPayload(req'))
        => /\ resp'.status = 201
           /\ \E id \in Ids \ IdsOf(store) :
                 LET row == RowOf(id, req'.body.data)
                 IN  /\ store' = store \cup {row}
                     /\ Cardinality(store') = Cardinality(store) + 1
                     /\ resp'.entity = <<row>>
                     /\ resp'.location = <<<<"customers", str(id)>>>>
           /\ LET path == resp'.location[1]
                  got == get_customers(store', int(path[2]).value).resp
              IN  /\ path[1] = "customers"
                  /\ int(path[2]).ok
                  /\ got.status = 200
                  /\ \A f \in {"name", "email", "phone_number", "address"} :
                        got.entity[1][f] = req'.body.data[f]]_vars

\* C1's case: a customer was just created beside an existing one, from a
\* payload that carried an id of its own.
C1_Witness ==
    /\ req.op = "POST /customers"
    /\ resp.status = 201
    /\ Cardinality(store) = 2
    /\ "id" \in DOMAIN req.body.data

\* C2: DELETE with a numeric id removes the customer with that id, leaves
\* every other row alone and answers 204; with no such customer it answers
\* 404 and changes nothing.  So once an id was deleted with 204 and not
\* created again, a DELETE of it answers 404 and changes nothing, and a GET
\* of it answers 404.
C2_DeleteThenAbsent ==
    [][/\ (req'.op = "DELETE /customers/id" /\ int(req'.path).ok)
          => LET id == int(req'.path).value
             IN  IF id \in IdsOf(store)
                 THEN /\ resp'.status = 204
                      /\ store' = {r \in store : r.id # id}
                      /\ Cardinality(store') = Cardinality(store) - 1
                 ELSE /\ resp'.status = 404
                      /\ store' = store
       /\ \A id \in Ids :
             life'[id] = "deleted"
             => /\ delete_customer(store', str(id)).resp.status = 404
                /\ delete_customer(store', str(id)).db = store'
                /\ get_customers(store', id).resp.status = 404]_vars

\* C2's case: a DELETE of an id that an earlier DELETE removed.
C2_Witness ==
    /\ req.op = "DELETE /customers/id"
    /\ resp.status = 404
    /\ int(req.path).ok
    /\ int(req.path).value \in Ids
    /\ life[int(req.path).value] = "deleted"
    /\ store # {}

\* C3: PUT of a valid payload as application/json answers 404 and changes
\* nothing when no customer has the id; otherwise it replaces that customer's
\* name, email, phone_number and address by the payload's, changes no other
\* row nor the number of rows, and answers 200 with the updated customer.
C3_PutReplacesFields ==
    [][(req'.op = "PUT /customers/id" /\ HasJsonContentType(req') /\ ValidPayload(req'))
        => LET id == req'.customer_id
               row == RowOf(id, req'.body.data)
           IN  IF id \in IdsOf(store)
               THEN /\ resp'.status = 200
                    /\ resp'.entity = <<row>>
                    /\ store' = {r \in store : r.id # id} \cup {row}
                    /\ Cardinality(store') = Cardinality(store)
               ELSE /\ resp'.status = 404
                    /\ store' = store]_vars

\* C3's case: a PUT just replaced one of two customers.
C3_Witness ==
    /\ req.op = "PUT /customers/id"
    /\ resp.status = 200
    /\ Cardinality(store) = 2
    /\ RowOf(req.customer_id, req.body.data) \in store

\* C4: GET /customers/<id> answers 200 with the serialized customer exactly
\* when a customer with that id is in the table, which is exactly when the
\* id was created and not deleted since, and 404 otherwise.
C4_GetFoundIffLive ==
    /\ \A id \in ClientIds :
          LET got == get_customers(store, id).resp
          IN  IF id \in Ids /\ life[id] = "live"
              THEN /\ got.status = 200
                   /\ \E r \in store : r.id = id /\ got.entity = <<r>>
              ELSE /\ got.status = 404
                   /\ id \notin IdsOf(store)
    /\ req.op = "GET /customers/id"
       => /\ resp.status = 200 <=> req.customer_id \in IdsOf(store)
          /\ resp.status \in {200, 404}
          /\ resp.status = 200 => resp.entity[1] \in store

\* C4's case: a GET of an id that was created and then deleted.
C4_Witness ==
    /\ req.op = "GET /customers/id"
    /\ resp.status = 404
    /\ req.customer_id \in Ids
    /\ life[req.customer_id] = "deleted"

\* C5: a POST or PUT whose Content-Type is missing or is not exactly
\* application/json answers 415 and changes nothing, whatever the payload;
\* for PUT also when no customer has the id: no lookup is made first.
C5_WrongContentType415 ==
    [][(req'.op \in {"POST /customers", "PUT /customers/id"} /\ ~HasJsonContentType(req'))
        => /\ resp'.status = 415
           /\ store' = store
           /\ calls' = <<>>]_vars

\* C5's case: a PUT with a Content-Type that only starts with
\* application/json, for an id no customer has.
C5_Witness ==
    /\ req.op = "PUT /customers/id"
    /\ "Content-Type" \in DOMAIN req.headers
    /\ resp.status = 415
    /\ store # {}
    /\ req.customer_id \notin IdsOf(store)

\* The priority order of the filters of GET /customers
FilterPriority == <<"name", "email", "phone_number", "address">>

\* The rows the first filter among `given`, in priority order, selects; every
\* row when none is given.
FirstFilterRows(db, args, given) ==
    IF given = {} THEN db
    ELSE LET first == CHOOSE i \in DOMAIN FilterPriority :
                          /\ FilterPriority[i] \in given
                          /\ \A j \in 1..(i - 1) : FilterPriority[j] \notin given
             key == FilterPriority[first]
         IN  {r \in db : r[key] = args[key]}

\* C6 as stated: GET /customers answers 200 with exactly the customers that
\* match the first filter present in the query, in the order name, email,
\* phone_number, address, and with every customer when no filter is present.
C6_FirstPresentFilter ==
    req.op = "GET /customers"
    => /\ resp.status = 200
       /\ resp.list = FirstFilterRows(store, req.args, DOMAIN req.args)

\* C6 amended: GET /customers answers 200 with exactly the customers that
\* match the first filter with a non-empty value, in the order name, email,
\* phone_number, address; filters after it are ignored, a filter with an
\* empty value counts as absent, and with no non-empty filter the answer is
\* every customer.
C6_FirstNonEmptyFilter ==
    req.op = "GET /customers"
    => /\ resp.status = 200
       /\ resp.list = FirstFilterRows(store, req.args,
                                      {k \in DOMAIN req.args : req.args[k] # ""})

\* C6's case: a query with a name and an email, where a customer matches the
\* email and not the name, and the answer holds only the one matching the
\* name.
C6_Witness ==
    /\ req.op = "GET /customers"
    /\ {"name", "email"} \subseteq DOMAIN req.args
    /\ req.args["name"] # ""
    /\ req.args["email"] # ""
    /\ \E r \in store : r.email = req.args["email"] /\ r.name # req.args["name"]
    /\ Cardinality(resp.list) = 1
    /\ \A r \in resp.list : r.name = req.args["name"]

\* C7: a customer's id never changes: a PUT that answers 200 leaves the
\* customer stored under, and serialized with, the id of the path, whatever
\* id the payload carries, the set of ids in the table is as before, and no
\* two rows of the table ever share an id.
C7_IdImmutable ==
    [][/\ (req'.op = "PUT /customers/id" /\ resp'.status = 200)
          => /\ req'.customer_id \in IdsOf(store)
             /\ resp'.entity[1].id = req'.customer_id
             /\ resp'.entity[1] \in store'
             /\ IdsOf(store') = IdsOf(store)
       /\ \A r1 \in store', r2 \in store' : r1.id = r2.id => r1 = r2]_vars

\* C7's case: a PUT just updated a customer from a payload that carries
\* another customer's id.
C7_Witness ==
    /\ req.op = "PUT /customers/id"
    /\ resp.status = 200
    /\ "id" \in DOMAIN req.body.data
    /\ req.body.data["id"] # req.customer_id
    /\ req.body.data["id"] \in IdsOf(store)

IsRead(request) ==
    request.op \in {"GET /", "GET /customers", "GET /customers/id"}

\* C8: GET /, GET /customers with any filters and GET /customers/<id>, found
\* or not, leave the table as it was, and the same read repeated with no
\* write in between gets the same response.
C8_ReadsNeverMutate ==
    [][IsRead(req')
        => /\ store' = store
           /\ (req' = req => resp' = resp)]_vars

\* C8's case: a filtered list that left out some customer of the table.
C8_Witness ==
    /\ req.op = "GET /customers"
    /\ resp.list # {}
    /\ Cardinality(resp.list) < Cardinality(store)

\* A path segment that is no number: it has no digit, or a character that
\* is none of a digit, a sign, a blank and an underscore.
NonNumeric(path) ==
    \/ \A i \in DOMAIN path :
          path[i] \notin {"0", "1", "2", "3", "4", "5", "6", "7", "8", "9"}
    \/ \E i \in DOMAIN path :
          path[i] \notin {"0", "1", "2", "3", "4", "5", "6", "7", "8", "9",
                          "-", "+", " ", "_"}

\* C9: DELETE with a non-numeric id raises a validation error, a client
\* error that is neither 204 nor 404, before any lookup, and changes nothing.
C9_DeleteBadIdFormat ==
    [][(req'.op = "DELETE /customers/id" /\ NonNumeric(req'.path))
        => /\ resp'.raised = "DataValidationError"
           /\ resp'.status \in 400..499
           /\ resp'.status \notin {204, 404}
           /\ calls' = <<>>
           /\ store' = store]_vars

\* C9's case: a DELETE of a non-numeric id on a table with customers.
C9_Witness ==
    /\ req.op = "DELETE /customers/id"
    /\ NonNumeric(req.path)
    /\ resp.raised = "DataValidationError"
    /\ store # {}

\* C10: a POST, or a PUT for an existing id, as application/json with a
\* payload deserialize rejects fails with the validation error and leaves
\* the table as it was: neither create() nor update() is called.
C10_MalformedPayloadNoWrite ==
    [][(/\ HasJsonContentType(req')
        /\ MalformedPayload(req')
        /\ \/ req'.op = "POST /customers"
           \/ req'.op = "PUT /customers/id" /\ req'.customer_id \in IdsOf(store))
        => /\ resp'.raised = "DataValidationError"
           /\ resp'.status \in 400..499
           /\ store' = store
           /\ "create" \notin Range(calls')
           /\ "update" \notin Range(calls')]_vars

\* C10's case: a PUT for an existing customer whose payload gives a new name
\* and lacks a later field was rejected.
C10_Witness ==
    /\ req.op = "PUT /customers/id"
    /\ resp.raised = "DataValidationError"
    /\ "name" \in DOMAIN req.body.data
    /\ \E r \in store : r.id = req.customer_id /\ r.name # req.body.data["name"]

============================================================================
